---- MODULE Spec2Model ----
(***************************************************************************)
(* The inbox pipeline of the federation handlers (handleInbox) as a state  *)
(* machine.  A request is a coroutine: every action below is the code that *)
(* runs between two awaits, i.e. the continuation run when the awaited     *)
(* collaborator settles, up to the next await or to the return.            *)
(* Requests overlap (two handler slots), the key-value store is the only   *)
(* state they share.  Results of collaborators (getActor, JSON parser,     *)
(* verifyObject, verifyRequest, Activity.fromJsonLd, doesActorOwnKey, the  *)
(* listener, the store) and the parameters of the call are inputs, drawn   *)
(* from small sets at the step that reads them.  A behaviour covers less   *)
(* than the time-to-live of a record: the store drops no record.           *)
(***************************************************************************)
EXTENDS Naturals, Sequences, FiniteSets

VARIABLES
  kv,          \* the key-value store: entry under kvPrefix + id.href
  pc,          \* per slot: the await the request is suspended at
  activity,    \* per slot: local `activity`
  httpSigKey,  \* per slot: local `httpSigKey`
  resp,        \* per slot: the Response returned
  called,      \* per slot: class whose listener was invoked (local `cls`)
  hist,        \* per slot: the outcome of every stage passed so far, in order
  calls,       \* per id: number of listener invocations made so far
  served,      \* per id: number of requests whose listener returned and
               \*         whose record was written
  delivered,   \* number of requests received so far
  known,       \* per slot: the ids the store held a record of when the
               \*           request arrived
  fetch,       \* the request handled by handleActor/Object/Collection
  result,      \* ... the callbacks its handler has called, the await it is
               \*     suspended at, and its response once it has returned
  walk,        \* the listener resolution loop of one request
  errors,      \* per slot: the errors caught, and whether inboxErrorHandler
               \* was there to be called with them
  params       \* per slot: the parameters `actorDispatcher` (set or not) and
               \* `handle` of the request, for as long as it reads them

inboxVars == <<kv, pc, activity, httpSigKey, resp, called, hist, calls,
               served, delivered, known, errors, params>>
\* The variables of the other handlers, which an inbox request leaves alone.
aside == <<fetch, result, walk>>
vars == <<kv, pc, activity, httpSigKey, resp, called, hist, calls, served,
          delivered, known, fetch, result, walk, errors, params>>

(* ---------------------------- bounds ----------------------------------- *)

\* Total number of deliveries handled in one behaviour.
MaxDeliveries == 2

\* Handler slots: at most two requests are in flight at a time.
Slots == {"s1", "s2"}

(* ---------------------------- values ----------------------------------- *)

Null == "null"
Ids == {"https://e/a/1", "https://e/a/2"}
Actor == "https://e/@bob"

\* Activity classes and their prototype chain (Object.getPrototypeOf).
Classes == {"Activity", "Accept", "TentativeAccept", "Create"}
Parent == [c \in Classes |->
             IF c = "TentativeAccept" THEN "Accept" ELSE "Activity"]
NoClass == "none"

\* An Activity object: what verifyObject / Activity.fromJsonLd return.  Its
\* class (activity.constructor) is read by the listener resolution.
Activities == [id : Ids \cup {Null}, actorId : {Null, Actor}]
NoActivity == [id |-> Null, actorId |-> Null]

\* Keys verifyRequest can return: the key of the activity's actor, or the
\* key of somebody else.  null: no valid signature.
ActorKey == "https://e/@bob#main-key"
OtherKey == "https://x/@eve#main-key"
Keys == {ActorKey, OtherKey}

\* The possible values of the inboxListeners parameter (its key set).
ListenerMaps == SUBSET Classes

(* --------------------------- responses --------------------------------- *)

TextResponse(status, body) == [status |-> status, body |-> body]
NoResponse == [status |-> 0, body |-> <<>>]
\* Whatever the caller's onNotFound(request) returns.
OnNotFound == [status |-> 404, body |-> <<"onNotFound(request)">>]
InvalidJson == TextResponse(400, <<"Invalid JSON.">>)
InvalidActivity == TextResponse(400, <<"Invalid activity.">>)
SignatureFailed ==
  TextResponse(401, <<"Failed to verify the request signature.">>)
AlreadyProcessedResponse(id) ==
  TextResponse(202, <<"Activity <", id, "> has already been processed.">>)
MissingActor == TextResponse(400, <<"Missing actor.">>)
SignerMismatch ==
  TextResponse(401, <<"The signer and the actor do not match.">>)
Accepted == TextResponse(202, <<>>)
InternalError == TextResponse(500, <<"Internal server error.">>)

(* ------------------------- key-value store ----------------------------- *)

\* Temporal.Duration.from({ days: 1 })
TtlDays == 1
NoEntry == [value |-> "undefined", ttlDays |-> 0]
\* A record written without its time-to-live.
KvSetForever(store, key, value, ttl) ==
  [store EXCEPT ![key] = [value |-> value, ttlDays |-> 0]]
\* A write that is not confined to its key.
KvSetEverywhere(store, key, value, ttl) ==
  [k \in DOMAIN store |-> [value |-> value, ttlDays |-> ttl]]

\* kv.set(key, value, { ttl })
KvSet(store, key, value, ttl) ==
  [store EXCEPT ![key] = [value |-> value, ttlDays |-> ttl]]
KvGet(store, key) == store[key].value

(* ------------------------ pieces of handleInbox ------------------------ *)

\* A lookup key that is never computed: no deduplication.
CacheKeyNever(act) == Null

\* A lookup key computed for every activity: one key for all without an id.
CacheKeyOfAll(act) == IF act.id = Null THEN "https://e/a/1" ELSE act.id

\* const cacheKey = activity.id == null ? null : [...kvPrefix, activity.id.href]
CacheKey(act) == IF act.id = Null THEN Null ELSE act.id

\* A lookup whose hit is ignored.
IsCachedNever(cached) == FALSE

\* if (cached === true)
IsCached(cached) == cached = "true"

\* The ownership check left out.
NeedsOwnerCheckNever(key) == FALSE

\* httpSigKey != null: the ownership check is made on the HTTP-signature path
NeedsOwnerCheck(key) == key # Null

\* doesActorOwnKey(activity, httpSigKey, context)
DoesActorOwnKey(act, key) == act.actorId # Null /\ key = ActorKey

\* if (inboxListeners.has(cls)) break;
HasListener(listeners, cls) == cls \in listeners

\* A lookup of the concrete class only: the walk gives up at once.
IsRootAlways(cls) == TRUE

\* if (cls === Activity): the walk gives up at the root
IsRoot(cls) == cls = "Activity"

\* A loop that does not climb.
GetPrototypeOfSelf(cls) == cls

\* cls = globalThis.Object.getPrototypeOf(cls);
GetPrototypeOf(cls) == Parent[cls]

\* The while (true) loop of the listener resolution: the class whose
\* listener is called, NoClass when the walk ends at the root without one.
RECURSIVE ResolveListener(_, _)
ResolveListener(cls, listeners) ==
  IF HasListener(listeners, cls) THEN cls
  ELSE IF IsRoot(cls) THEN NoClass
  ELSE ResolveListener(GetPrototypeOf(cls), listeners)

\* A commit made in a finally block: also when the listener threw.
ShouldCommitAlways(outcome, cacheKey) == cacheKey # Null

\* The idempotency record is written when the listener returned normally
\* and a cache key was computed.
ShouldCommit(outcome, cacheKey) == outcome = "return" /\ cacheKey # Null

(* --------------------------- continuations ----------------------------- *)

\* A stage of the pipeline and how it ended, as recorded in hist.
Ev(stage, outcome) == <<stage, outcome>>

InFlight(r) == pc[r] \notin {"idle", "done", "threw", "abandoned"}

\* return new Response(...)
Return(r, response, evs) ==
  /\ pc' = [pc EXCEPT ![r] = "done"]
  /\ resp' = [resp EXCEPT ![r] = response]
  /\ hist' = [hist EXCEPT ![r] = @ \o evs]
  /\ UNCHANGED <<called, calls, served, errors>>

\* An exception no try block of handleInbox catches: the promise rejects.
Reject(r, evs) ==
  /\ pc' = [pc EXCEPT ![r] = "threw"]
  /\ hist' = [hist EXCEPT ![r] = @ \o evs]
  /\ UNCHANGED <<resp, called, calls, served, errors>>

\* The request suspends at the next await.
Await(r, call, evs) ==
  /\ pc' = [pc EXCEPT ![r] = call]
  /\ hist' = [hist EXCEPT ![r] = @ \o evs]
  /\ UNCHANGED <<resp, called, calls, served, errors>>

\* The response of a catch block.
ErrorResponse(error) ==
  CASE error = "json" -> InvalidJson
    [] error = "proof" -> InvalidActivity
    [] error = "listener" -> InternalError

\* What a catch block caught, and whether inboxErrorHandler was called with
\* it.
Caught(error, handled) == [error |-> error, called |-> handled]

\* A catch block: await inboxErrorHandler?.(context, error).  The request
\* suspends at this await also when no handler is given (await undefined).
Catch(r, error, evs) ==
  \E inboxErrorHandler \in BOOLEAN :
    /\ pc' = [pc EXCEPT ![r] = "errorHandler"]
    /\ hist' = [hist EXCEPT ![r] = @ \o evs]
    /\ errors' = [errors EXCEPT
                    ![r] = Append(@, Caught(error, inboxErrorHandler))]
    /\ UNCHANGED <<resp, called, calls, served>>

\* Listener resolution and the call of the listener, for every class of the
\* activity and every inboxListeners map.
Dispatch(r, act, evs) ==
  \E cls \in {ResolveListener(class, inboxListeners) :
                class \in Classes, inboxListeners \in ListenerMaps} :
    IF cls = NoClass
      THEN Return(r, Accepted, evs \o <<Ev("resolve", "none")>>)
      ELSE /\ pc' = [pc EXCEPT ![r] = "listener"]
           /\ called' = [called EXCEPT ![r] = cls]
           /\ calls' = IF act.id \in Ids
                         THEN [calls EXCEPT ![act.id] = @ + 1] ELSE calls
           /\ hist' = [hist EXCEPT ![r] = @ \o evs \o <<Ev("resolve", cls)>>]
           /\ UNCHANGED <<resp, served, errors>>

\* The owner of the key, checked on the HTTP-signature path.
CheckOwner(r, act, key, evs) ==
  IF NeedsOwnerCheck(key) THEN Await(r, "doesActorOwnKey", evs)
  ELSE Dispatch(r, act, evs)

\* if (activity.actorId == null)
CheckActor(r, act, key, evs) ==
  IF act.actorId = Null
    THEN Return(r, MissingActor, evs \o <<Ev("actor", "missing")>>)
    ELSE CheckOwner(r, act, key, evs \o <<Ev("actor", "present")>>)

\* The lookup left out: the actor check follows the verification.
DeduplicateNever(r, act, key, evs) == CheckActor(r, act, key, evs)

\* The actor check made before the lookup.
DeduplicateAfterActor(r, act, key, evs) ==
  IF act.actorId = Null
    THEN Return(r, MissingActor, evs \o <<Ev("actor", "missing")>>)
  ELSE IF CacheKey(act) # Null THEN Await(r, "kv.get", evs)
  ELSE CheckActor(r, act, key, evs)

\* The idempotency lookup, made when the activity has an id.
Deduplicate(r, act, key, evs) ==
  IF CacheKey(act) # Null THEN Await(r, "kv.get", evs)
  ELSE CheckActor(r, act, key, evs)

\* The success response; the delivery counts as served when it left a record.
Succeed(r, evs) ==
  /\ pc' = [pc EXCEPT ![r] = "done"]
  /\ resp' = [resp EXCEPT ![r] = Accepted]
  /\ hist' = [hist EXCEPT ![r] = @ \o evs]
  /\ served' = IF CacheKey(activity[r]) # Null
                 THEN [served EXCEPT ![activity[r].id] = @ + 1] ELSE served
  /\ UNCHANGED <<called, calls, errors>>

(* ------------------------------ actions -------------------------------- *)

Recorded(store) == {k \in Ids : store[k] # NoEntry}

\* A store that holds, under the keys of the prefix, a truthy value other
\* than true: the number 1, as a store that keeps booleans as numbers gives.
ForeignEntry == [value |-> "1", ttlDays |-> TtlDays]
StoreForeign == kv = [k \in Ids |-> ForeignEntry]

StoreEmpty == kv = [k \in Ids |-> NoEntry]

\* The parameters of handleInbox that the configuration sanity stage reads.
Handles == {Null, "alice"}
InboxParams == [actorDispatcher : BOOLEAN, handle : Handles]
NoParams == [actorDispatcher |-> FALSE, handle |-> Null]
\* Past the configuration sanity stage `handle` is read by the log records
\* at lines 351 (the body did not parse), 362 (the proof verifier threw) and
\* 376 (no valid signature) and by nothing else; a request that is past its
\* last read of it, or that rejected, no longer holds the value of the
\* handle, nor `actorDispatcher`, which was found set.  A request stopped at
\* the configuration sanity stage keeps both.
Released == [actorDispatcher |-> TRUE, handle |-> "released"]

RequestsIdle ==
  /\ pc = [r \in Slots |-> "idle"]
  /\ activity = [r \in Slots |-> NoActivity]
  /\ httpSigKey = [r \in Slots |-> Null]
  /\ resp = [r \in Slots |-> NoResponse]
  /\ called = [r \in Slots |-> NoClass]
  /\ hist = [r \in Slots |-> <<>>]
  /\ calls = [k \in Ids |-> 0]
  /\ served = [k \in Ids |-> 0]
  /\ delivered = 0
  /\ known = [r \in Slots |-> {}]
  /\ errors = [r \in Slots |-> <<>>]
  /\ params = [r \in Slots |-> NoParams]

InboxInit == StoreEmpty /\ RequestsIdle

\* The handle resolver called whatever the handle.
ResolvesHandleAlways(handle) == TRUE

\* else if (handle != null): the actor of the handle is looked up
ResolvesHandle(handle) == handle # Null

\* A request arrives in a free slot: the configuration sanity stage.
Begin(r) ==
  /\ ~InFlight(r)
  /\ delivered < MaxDeliveries
  /\ delivered' = delivered + 1
  /\ activity' = [activity EXCEPT ![r] = NoActivity]
  /\ httpSigKey' = [httpSigKey EXCEPT ![r] = Null]
  /\ called' = [called EXCEPT ![r] = NoClass]
  /\ known' = [known EXCEPT ![r] = Recorded(kv)]
  /\ errors' = [errors EXCEPT ![r] = <<>>]
  /\ UNCHANGED <<kv, calls, served, aside>>
  /\ \E given \in InboxParams :
       /\ params' = [params EXCEPT ![r] = given]
       /\ resp' = [resp EXCEPT ![r] = NoResponse]
       /\ IF ~given.actorDispatcher
            THEN /\ pc' = [pc EXCEPT ![r] = "onNotFound"]
                 /\ hist' = [hist EXCEPT ![r] = <<Ev("config", "notFound")>>]
            ELSE /\ IF ResolvesHandle(given.handle)
                      THEN /\ pc' = [pc EXCEPT ![r] = "getActor"]
                           /\ hist' = [hist EXCEPT ![r] = <<>>]
                      ELSE /\ pc' = [pc EXCEPT ![r] = "json"]
                           /\ hist' =
                                [hist EXCEPT ![r] = <<Ev("config", "ok")>>]

\* context.getActor(handle) settles, or rejects: the call is in no try
\* block, and no stage of the request has an outcome yet.
GetActorReturn(r) ==
  /\ pc[r] = "getActor"
  /\ UNCHANGED <<kv, activity, httpSigKey, delivered, known, aside>>
  /\ \/ /\ params' = [params EXCEPT ![r] = Released]
        /\ Reject(r, <<>>)
     \/ \E actor \in {Null, Actor} :
          /\ UNCHANGED params
          /\ IF actor = Null
               THEN Await(r, "onNotFound", <<Ev("config", "notFound")>>)
               ELSE Await(r, "json", <<Ev("config", "ok")>>)

\* request.clone().json() settles.
JsonReturn(r) ==
  /\ pc[r] = "json"
  /\ UNCHANGED <<kv, activity, httpSigKey, delivered, known, aside>>
  /\ \/ /\ UNCHANGED params
        /\ Await(r, "verifyObject", <<Ev("json", "ok")>>)
     \/ /\ params' = [params EXCEPT ![r] = Released]
        /\ Catch(r, "json", <<Ev("json", "throw")>>)

\* verifyObject(Activity, json, context) settles.
VerifyObjectReturn(r) ==
  /\ pc[r] = "verifyObject"
  /\ UNCHANGED <<kv, httpSigKey, delivered, known, aside>>
  /\ \/ /\ UNCHANGED activity
        /\ params' = [params EXCEPT ![r] = Released]
        /\ Catch(r, "proof", <<Ev("proof", "throw")>>)
     \/ /\ UNCHANGED <<activity, params>>
        /\ Await(r, "verifyRequest", <<Ev("proof", "null")>>)
     \/ \E act \in Activities :
          /\ activity' = [activity EXCEPT ![r] = act]
          /\ params' = [params EXCEPT ![r] = Released]
          /\ Deduplicate(r, act, Null, <<Ev("proof", "activity")>>)

\* verifyRequest(request, ...) settles.
VerifyRequestReturn(r) ==
  /\ pc[r] = "verifyRequest"
  /\ UNCHANGED <<kv, activity, delivered, known, aside>>
  /\ params' = [params EXCEPT ![r] = Released]
  /\ \/ /\ UNCHANGED httpSigKey
        /\ Reject(r, <<Ev("httpsig", "throw")>>)
     \/ \E key \in Keys \cup {Null} :
          /\ httpSigKey' = [httpSigKey EXCEPT ![r] = key]
          /\ IF key = Null
               THEN Return(r, SignatureFailed, <<Ev("httpsig", "null")>>)
               ELSE Await(r, "fromJsonLd", <<Ev("httpsig", "key")>>)

\* Activity.fromJsonLd(json, context) settles.
FromJsonLdReturn(r) ==
  /\ pc[r] = "fromJsonLd"
  /\ UNCHANGED <<kv, httpSigKey, delivered, known, params, aside>>
  /\ \/ /\ UNCHANGED activity
        /\ Reject(r, <<Ev("fromJsonLd", "throw")>>)
     \/ \E act \in Activities :
          /\ activity' = [activity EXCEPT ![r] = act]
          /\ Deduplicate(r, act, httpSigKey[r],
                         <<Ev("fromJsonLd", "activity")>>)

\* kv.get(cacheKey) settles.
KvGetReturn(r) ==
  /\ pc[r] = "kv.get"
  /\ UNCHANGED <<kv, activity, httpSigKey, delivered, known, params, aside>>
  /\ \/ Reject(r, <<Ev("kv.get", "throw")>>)
     \/ LET cached == KvGet(kv, CacheKey(activity[r])) IN
        IF IsCached(cached)
          THEN Return(r, AlreadyProcessedResponse(activity[r].id),
                      <<Ev("kv.get", cached)>>)
          ELSE CheckActor(r, activity[r], httpSigKey[r],
                          <<Ev("kv.get", cached)>>)

\* doesActorOwnKey(activity, httpSigKey, context) settles.
DoesActorOwnKeyReturn(r) ==
  /\ pc[r] = "doesActorOwnKey"
  /\ UNCHANGED <<kv, activity, httpSigKey, delivered, known, params, aside>>
  /\ \/ Reject(r, <<Ev("owner", "throw")>>)
     \/ IF DoesActorOwnKey(activity[r], httpSigKey[r])
          THEN Dispatch(r, activity[r], <<Ev("owner", "true")>>)
          ELSE Return(r, SignerMismatch, <<Ev("owner", "false")>>)

\* listener(context, activity) settles.
ListenerReturn(r) ==
  /\ pc[r] = "listener"
  /\ UNCHANGED <<kv, activity, httpSigKey, delivered, known, params, aside>>
  /\ \E outcome \in {"return", "throw"} :
       LET evs == <<Ev("listener", outcome)>> IN
       IF ShouldCommit(outcome, CacheKey(activity[r]))
         THEN Await(r, "kv.set", evs)
         ELSE IF outcome = "throw" THEN Catch(r, "listener", evs)
         ELSE Succeed(r, evs)

\* kv.set(cacheKey, true, { ttl }) settles.
KvSetReturn(r) ==
  /\ pc[r] = "kv.set"
  /\ UNCHANGED <<activity, httpSigKey, delivered, known, params, aside>>
  /\ \/ /\ UNCHANGED kv
        /\ Reject(r, <<Ev("kv.set", "throw")>>)
     \/ /\ kv' = KvSet(kv, CacheKey(activity[r]), "true", TtlDays)
        /\ Succeed(r, <<Ev("kv.set", "ok")>>)

\* await inboxErrorHandler?.(context, error) settles: the response of the
\* catch block, or the exception of the handler when there is one.
ErrorHandlerReturn(r) ==
  /\ pc[r] = "errorHandler"
  /\ UNCHANGED <<kv, activity, httpSigKey, delivered, known, params, aside>>
  /\ LET caught == errors[r][Len(errors[r])] IN
     \/ Return(r, ErrorResponse(caught.error), <<>>)
     \/ /\ caught.called
        /\ Reject(r, <<Ev("errorHandler", "throw")>>)

\* await onNotFound(request) settles (lines 339, 344).
OnNotFoundReturn(r) ==
  /\ pc[r] = "onNotFound"
  /\ UNCHANGED <<kv, activity, httpSigKey, delivered, known, params, aside>>
  /\ \/ Return(r, OnNotFound, <<>>)
     \/ Reject(r, <<Ev("onNotFound", "throw")>>)

\* The transport abandons the request at a suspension point.
Abandon(r) ==
  /\ InFlight(r)
  /\ pc' = [pc EXCEPT ![r] = "abandoned"]
  /\ UNCHANGED <<kv, activity, httpSigKey, resp, called, hist, calls, served,
                 delivered, known, errors, params, aside>>

\* An await of the request settles.
Settle(r) ==
  \/ GetActorReturn(r)
  \/ JsonReturn(r)
  \/ VerifyObjectReturn(r)
  \/ VerifyRequestReturn(r)
  \/ FromJsonLdReturn(r)
  \/ KvGetReturn(r)
  \/ DoesActorOwnKeyReturn(r)
  \/ ListenerReturn(r)
  \/ KvSetReturn(r)
  \/ ErrorHandlerReturn(r)
  \/ OnNotFoundReturn(r)

Step(r) ==
  \/ Settle(r)
  \/ Abandon(r)

InboxNext ==
  \/ \E r \in Slots : Begin(r)
  \/ \E r \in Slots : Step(r)

\* Deliveries handled one at a time: a request arrives when none is in flight.
BeginAlone(r) ==
  /\ \A s \in Slots : ~InFlight(s)
  /\ Begin(r)

InboxNextSeq ==
  \/ \E r \in Slots : BeginAlone(r)
  \/ \E r \in Slots : Step(r)


(* ------------- handleActor, handleObject, handleCollection ------------- *)

\* What acceptsJsonLd reads from accepts(request): the null it tests for,
\* which accepts(request) never returns, or the accepted media types in the
\* order of preference.
NullTypes == [isNull |-> TRUE, list |-> <<>>]
Types(list) == [isNull |-> FALSE, list |-> list]
AcceptedTypes ==
  { Types(<<>>),
    Types(<<"*/*">>),
    Types(<<"text/html">>),
    Types(<<"application/activity+json">>),
    Types(<<"text/html", "application/activity+json">>),
    Types(<<"application/json", "text/html">>),
    Types(<<"application/xhtml+xml", "application/ld+json">>) }

JsonLdTypes ==
  {"application/activity+json", "application/ld+json", "application/json"}

AcceptsJsonLd(types) ==
  IF types.isNull THEN TRUE
  ELSE IF Len(types.list) > 0
          /\ types.list[1] \in {"text/html", "application/xhtml+xml"}
    THEN FALSE
  ELSE \E i \in DOMAIN types.list : types.list[i] \in JsonLdTypes

\* A request to handleActor or handleObject, with the parameters of the
\* call and the results its callbacks give when they are called.
\*   configured  the dispatcher is given
\*   resource    what the dispatcher returns: null, or the actor or object
\*   types       what accepts(request) gives
\*   authorize   the authorization predicate: not given, or what it returns
Unset == "unset"
NoFetch == [handler |-> "none"]

\* Where a call of a handler stands: the callbacks it has called, in order,
\* the await it is suspended at ("start" before the call, "done" once it has
\* returned, "threw" once it has rejected), what it has built and, once it
\* has returned, its response.
Suspended(made, at) ==
  [ calls |-> made, at |-> at, built |-> [kind |-> "none"],
    response |-> [kind |-> "none"] ]
NoOutcome == Suspended(<<>>, "start")
Awaiting(res) == res.at \notin {"start", "done", "threw"}
Returned(res, response) ==
  [res EXCEPT !.at = "done", !.response = response]
Rejected(res) == [res EXCEPT !.at = "threw"]

CallerCallbacks == {"onNotFound", "onNotAcceptable", "onUnauthorized"}
CallerResponse(callback) == [kind |-> callback]
\* A success response without its Vary header.
JsonLdResponseNoVary ==
  [ kind |-> "ok", status |-> 200,
    contentType |-> "application/activity+json", vary |-> Unset ]

JsonLdResponse ==
  [ kind |-> "ok", status |-> 200,
    contentType |-> "application/activity+json", vary |-> "Accept" ]

\* Authorization begun before the content negotiation.
NegotiateAfterAuthorize(q, made) ==
  IF q.authorize # Unset
    THEN Suspended(made \o <<"getSignedKey">>, "getSignedKey")
  ELSE IF ~AcceptsJsonLd(q.types)
    THEN Suspended(made, "onNotAcceptable")
  ELSE Suspended(made \o <<"toJsonLd">>, "toJsonLd")

\* What the three handlers do once the resource is there, up to the next
\* await: the content negotiation, then the lookup of the signed key when
\* there is a predicate, or the serialization.
Negotiate(q, made) ==
  IF ~AcceptsJsonLd(q.types)
    THEN Suspended(made, "onNotAcceptable")
  ELSE IF q.authorize # Unset
    THEN Suspended(made \o <<"getSignedKey">>, "getSignedKey")
  ELSE Suspended(made \o <<"toJsonLd">>, "toJsonLd")

\* The awaits the three handlers share, each settling with a value: the
\* authorization, the serialization and the caller's callbacks.
Continue(q, res) ==
  CASE res.at = "getSignedKey" ->
         [res EXCEPT !.calls = @ \o <<"getSignedKeyOwner">>,
                     !.at = "getSignedKeyOwner"]
    [] res.at = "getSignedKeyOwner" ->
         [res EXCEPT !.calls = @ \o <<"authorizePredicate">>,
                     !.at = "authorizePredicate"]
    [] res.at = "authorizePredicate" ->
         IF q.authorize = "false" THEN [res EXCEPT !.at = "onUnauthorized"]
         ELSE [res EXCEPT !.calls = @ \o <<"toJsonLd">>, !.at = "toJsonLd"]
    [] res.at = "toJsonLd" -> Returned(res, JsonLdResponse)
    [] res.at \in CallerCallbacks -> Returned(res, CallerResponse(res.at))

\* handleActor from the await it is suspended at, or from its call, to the
\* next await or to its return.
HandleActor(q, res) ==
  CASE res.at = "start" ->
         IF ~q.configured THEN Suspended(<<>>, "onNotFound")
         ELSE Suspended(<<"getActor">>, "getActor")
    [] res.at = "getActor" ->
         IF q.resource = Null THEN [res EXCEPT !.at = "onNotFound"]
         ELSE Negotiate(q, res.calls)
    [] OTHER -> Continue(q, res)

HandleObject(q, res) ==
  CASE res.at = "start" ->
         IF ~q.configured THEN Suspended(<<>>, "onNotFound")
         ELSE Suspended(<<"objectDispatcher">>, "objectDispatcher")
    [] res.at = "objectDispatcher" ->
         IF q.resource = Null THEN [res EXCEPT !.at = "onNotFound"]
         ELSE Negotiate(q, res.calls)
    [] OTHER -> Continue(q, res)

FetchIdle == fetch = NoFetch /\ result = NoOutcome

\* The call of handleActor: it runs to its first await.
HandleActorRequest ==
  /\ fetch.handler = "actor" /\ result.at = "start"
  /\ result' = HandleActor(fetch, result)
  /\ UNCHANGED <<inboxVars, fetch, walk>>

\* The await handleActor is suspended at settles, or rejects and handleActor
\* with it.
HandleActorReturn ==
  /\ fetch.handler = "actor" /\ Awaiting(result)
  /\ \/ result' = HandleActor(fetch, result)
     \/ result' = Rejected(result)
  /\ UNCHANGED <<inboxVars, fetch, walk>>

HandleObjectRequest ==
  /\ fetch.handler = "object" /\ result.at = "start"
  /\ result' = HandleObject(fetch, result)
  /\ UNCHANGED <<inboxVars, fetch, walk>>

HandleObjectReturn ==
  /\ fetch.handler = "object" /\ Awaiting(result)
  /\ \/ result' = HandleObject(fetch, result)
     \/ result' = Rejected(result)
  /\ UNCHANGED <<inboxVars, fetch, walk>>

(* ---------------------- accepts(request), Accept header ---------------- *)

\* The Accept header of a request: absent, or its media ranges in the order
\* written, each with its quality in tenths.  A header with nothing that
\* parses has no media range.
NoHeader == [present |-> FALSE, ranges |-> <<>>]
Header(ranges) == [present |-> TRUE, ranges |-> ranges]
MediaTypes == {"text/html", "application/activity+json", "*/*"}
Qualities == {0, 5, 10}
MediaRanges == [type : MediaTypes, q : Qualities]
AcceptHeaders ==
  {NoHeader, Header(<<>>)} \cup {Header(<<a>>) : a \in MediaRanges}
    \cup {Header(<<a, b>>) : a \in MediaRanges, b \in MediaRanges}

\* The position of the range that comes first: the highest quality and,
\* among equals, the one written first.
Preferred(ranges) ==
  CHOOSE i \in DOMAIN ranges :
    \A j \in DOMAIN ranges :
      ranges[i].q > ranges[j].q \/ (ranges[i].q = ranges[j].q /\ i <= j)

Without(ranges, i) ==
  [k \in 1..(Len(ranges) - 1) |-> IF k < i THEN ranges[k] ELSE ranges[k + 1]]

\* preferredMediaTypes(accept): the ranges of quality above zero, sorted.
RECURSIVE PreferredMediaTypes(_)
PreferredMediaTypes(ranges) ==
  IF ranges = <<>> THEN <<>>
  ELSE LET i == Preferred(ranges)
           rest == PreferredMediaTypes(Without(ranges, i)) IN
       IF ranges[i].q > 0 THEN <<ranges[i].type>> \o rest ELSE rest

\* accepts(request) of @std/http: every type when there is no header.
Accepts(header) ==
  IF ~header.present THEN <<"*/*">> ELSE PreferredMediaTypes(header.ranges)

AcceptRequests == [handler : {"acceptsJsonLd"}, accept : AcceptHeaders]

\* acceptsJsonLd(request)
AcceptsJsonLdRequest ==
  /\ fetch.handler = "acceptsJsonLd" /\ result = NoOutcome
  /\ result' = [ types |-> Accepts(fetch.accept),
                 value |-> AcceptsJsonLd(Types(Accepts(fetch.accept))) ]
  /\ UNCHANGED <<inboxVars, fetch, walk>>

(* ------------- respondWithObject, respondWithObjectIfAcceptable -------- *)

\* A response of respondWithObject that already varies on Accept.
RespondWithObjectVarying ==
  [ kind |-> "ok", status |-> 200,
    contentType |-> "application/activity+json", vary |-> "Accept" ]

\* The response respondWithObject(object, options) returns: no Vary header.
RespondWithObject ==
  [ kind |-> "ok", status |-> 200,
    contentType |-> "application/activity+json", vary |-> Unset ]

\* return null
NullResponse == [kind |-> "null"]

\* respondWithObject from its call or from its await.
RespondWithObjectFrom(res) ==
  CASE res.at = "start" -> Suspended(<<"toJsonLd">>, "toJsonLd")
    [] res.at = "toJsonLd" -> Returned(res, RespondWithObject)

\* respondWithObjectIfAcceptable from its call or from its await: the call
\* returns null without an await, or calls respondWithObject, which runs to
\* its await of toJsonLd; when respondWithObject has returned, the await of
\* its promise settles in a later turn, and the header is set.
RespondWithObjectIfAcceptable(header, res) ==
  CASE res.at = "start" ->
         IF ~AcceptsJsonLd(Types(Accepts(header)))
           THEN Returned(res, NullResponse)
           ELSE RespondWithObjectFrom(res)
    [] res.at = "toJsonLd" ->
         [res EXCEPT !.at = "respondWithObject",
                     !.built = RespondWithObjectFrom(res).response]
    [] res.at = "respondWithObject" ->
         IF res.built.kind = "rejected" THEN Rejected(res)
         ELSE Returned(res, [res.built EXCEPT !.vary = "Accept"])

RespondRequests ==
  [ handler : {"respondWithObject", "respondWithObjectIfAcceptable"},
    accept : AcceptHeaders ]

RespondWithObjectRequest ==
  /\ fetch.handler = "respondWithObject" /\ result.at = "start"
  /\ result' = RespondWithObjectFrom(result)
  /\ UNCHANGED <<inboxVars, fetch, walk>>

\* await object.toJsonLd(options) settles or rejects.
RespondWithObjectReturn ==
  /\ fetch.handler = "respondWithObject" /\ Awaiting(result)
  /\ \/ result' = RespondWithObjectFrom(result)
     \/ result' = Rejected(result)
  /\ UNCHANGED <<inboxVars, fetch, walk>>

RespondWithObjectIfAcceptableRequest ==
  /\ fetch.handler = "respondWithObjectIfAcceptable" /\ result.at = "start"
  /\ result' = RespondWithObjectIfAcceptable(fetch.accept, result)
  /\ UNCHANGED <<inboxVars, fetch, walk>>

\* An await settles: toJsonLd inside respondWithObject, which may reject
\* and the promise of respondWithObject with it, or that promise.
RespondWithObjectIfAcceptableReturn ==
  /\ fetch.handler = "respondWithObjectIfAcceptable" /\ Awaiting(result)
  /\ \/ result' = RespondWithObjectIfAcceptable(fetch.accept, result)
     \/ /\ result.at = "toJsonLd"
        /\ result' = [result EXCEPT !.at = "respondWithObject",
                                    !.built = [kind |-> "rejected"]]
  /\ UNCHANGED <<inboxVars, fetch, walk>>

(* ------------------------ filterCollectionItems ------------------------ *)

\* The items a dispatcher returns: an Object, a Link or a URL, which is
\* emitted as it is, or another recipient, emitted as its id when it has one.
Items ==
  { [kind |-> "Object", id |-> "o1"], [kind |-> "URL", id |-> "u1"],
    [kind |-> "Recipient", id |-> "r1"], [kind |-> "Recipient", id |-> Null] }
MaxItems == 3
ItemLists == UNION {[1..n -> Items] : n \in 0..MaxItems}

\* filterPredicate: not given, or the items for which it returns true.
NoPredicate == [given |-> FALSE, true |-> {}]
Predicates == {NoPredicate} \cup [given : {TRUE}, true : SUBSET Items]

IsNative(item) == item.kind \in {"Object", "Link", "URL"}

\* Every item emitted as it is, whatever its class.
MappedItemSelf(item) == item

\* mappedItem = item for an Object, a Link or a URL; mappedItem = item.id
\* for another entity
MappedItem(item) ==
  IF IsNative(item) THEN item ELSE [kind |-> "URL", id |-> item.id]

\* A warning for every item the predicate refuses.
WarnsEvery(logged) == TRUE

\* if (!logged)
Warns(logged) == ~logged

\* The loop of filterCollectionItems from item i on, with the result and the
\* logged flag so far; warnings counts the calls of the logger and asked
\* those of filterPredicate.
RECURSIVE FilterFrom(_, _, _, _, _, _, _)
FilterFrom(items, predicate, i, kept, logged, warnings, asked) ==
  IF i > Len(items)
    THEN [result |-> kept, warnings |-> warnings, asked |-> asked]
  ELSE LET item == items[i]
           now == IF predicate.given THEN asked + 1 ELSE asked IN
    IF ~IsNative(item) /\ item.id = Null
      THEN FilterFrom(items, predicate, i + 1, kept, logged, warnings, asked)
    ELSE IF predicate.given /\ item \notin predicate.true
      THEN FilterFrom(items, predicate, i + 1, kept, TRUE,
                      IF Warns(logged) THEN warnings + 1 ELSE warnings, now)
    ELSE FilterFrom(items, predicate, i + 1,
                    Append(kept, MappedItem(item)), logged, warnings, now)

FilterCollectionItems(items, predicate) ==
  FilterFrom(items, predicate, 1, <<>>, FALSE, 0, 0)

FilterRequests ==
  [handler : {"filterCollectionItems"}, items : ItemLists,
   predicate : Predicates]

FilterRequest ==
  /\ fetch.handler = "filterCollectionItems" /\ result = NoOutcome
  /\ result' = FilterCollectionItems(fetch.items, fetch.predicate)
  /\ UNCHANGED <<inboxVars, fetch, walk>>

(* ------------------- the collection handleCollection builds ------------ *)

\* The query of a URL: its parameters in order.  The rest of the URL is the
\* same in the request and in every URL derived from it.
Params ==
  { [name |-> "cursor", value |-> "p5"], [name |-> "cursor", value |-> "p7"],
    [name |-> "a", value |-> "1"] }
MaxParams == 2
Queries == UNION {[1..n -> Params] : n \in 0..MaxParams}

Named(query, name) == {i \in DOMAIN query : query[i].name = name}
First(positions) == CHOOSE i \in positions : \A j \in positions : i <= j

\* url.searchParams.get(name): the value of the first parameter of the name.
SearchGet(query, name) ==
  IF Named(query, name) = {} THEN Null
  ELSE query[First(Named(query, name))].value

\* A removal of the first parameter of the name only.
SearchDeleteFirst(query, name) ==
  IF Named(query, name) = {} THEN query
  ELSE LET f == First(Named(query, name)) IN
       [i \in 1..(Len(query) - 1) |-> IF i < f THEN query[i] ELSE query[i + 1]]

\* url.searchParams.delete(name): every parameter of the name goes.
SearchDelete(query, name) == SelectSeq(query, LAMBDA p : p.name # name)

\* url.searchParams.set(name, value): the first parameter of the name takes
\* the value and the others of the name go; with none, one is appended.
SearchSet(query, name, value) ==
  IF Named(query, name) = {}
    THEN Append(query, [name |-> name, value |-> value])
  ELSE LET f == First(Named(query, name)) IN
       SubSeq(query, 1, f - 1)
         \o <<[name |-> name, value |-> value]>>
         \o SearchDelete(SubSeq(query, f + 1, Len(query)), name)

NullUrl == [isNull |-> TRUE, query |-> <<>>]
Url(query) == [isNull |-> FALSE, query |-> query]

\* new URL(context.url): the context carries the URL of the request.
ContextUrl(q) == q.query

\* let prev = null; if (prevCursor != null) { prev = new URL(context.url);
\* prev.searchParams.set("cursor", prevCursor) }, and so for next and last.
CursorUrl(q, cursor) ==
  IF cursor \in {Unset, Null} THEN NullUrl
  ELSE Url(SearchSet(ContextUrl(q), "cursor", cursor))

\* Number(totalItems) of what the counter gave: nothing (no counter), null,
\* a number or a bigint.
Number(totalItems) ==
  CASE totalItems = Unset -> "NaN"
    [] totalItems = Null -> "0"
    [] totalItems = "42n" -> "42"
    [] OTHER -> totalItems

\* What the dispatcher returns: null, or a page.
NoPage == [found |-> FALSE, items |-> <<>>, prevCursor |-> Null,
           nextCursor |-> Null]
Pages ==
  {NoPage} \cup
  [ found : {TRUE}, items : {<<>>, <<[kind |-> "URL", id |-> "u1"]>>},
    prevCursor : {Null, "p4"}, nextCursor : {Null, "p6"} ]

\* A request to handleActor or handleObject (above), or to handleCollection,
\* with the parameters of the call and the results its callbacks give when
\* they are called.
\*   configured  the callbacks bundle is given
\*   query       the query of the request URL
\*   firstCursor, counter, lastCursor  the optional callbacks: not given, or
\*               what they return
\*   page        what the dispatcher returns
Fetches ==
  [ handler : {"actor", "object"}, configured : BOOLEAN,
    resource : {Null, "resource"}, types : AcceptedTypes,
    authorize : {Unset, "true", "false"} ]
  \cup
  [ handler : {"collection"}, configured : BOOLEAN, types : AcceptedTypes,
    authorize : {Unset, "true", "false"},
    query : {<<>>, <<[name |-> "cursor", value |-> "p5"]>>},
    firstCursor : {Unset, Null, "c0"}, counter : {Unset, Null, "42"},
    lastCursor : {Unset, "c9"},
    page : {NoPage, [ found |-> TRUE, items |-> <<>>, prevCursor |-> Null,
                      nextCursor |-> "p6" ]},
    predicate : {NoPredicate} ]

\* Requests that are served, for the collections they build.
CollectionRequests ==
  [ handler : {"collection"}, configured : {TRUE},
    types : {Types(<<"application/activity+json">>), Types(<<"text/html">>)},
    authorize : {Unset},
    query : Queries,
    firstCursor : {Unset, Null, "c0"}, lastCursor : {Unset, Null, "c9"},
    counter : {Unset, Null, "42", "42n"}, page : Pages,
    predicate : {NoPredicate} ]

\* The object handed to the constructor, and the cursors the dispatcher was
\* called with.
Built(kind, fields, dispatched) ==
  [ kind |-> kind, totalItems |-> fields.totalItems,
    embedsItems |-> fields.embedsItems, items |-> fields.items,
    first |-> fields.first, last |-> fields.last, prev |-> fields.prev,
    next |-> fields.next, partOf |-> fields.partOf,
    dispatched |-> dispatched ]
NoFields ==
  [ totalItems |-> Unset, embedsItems |-> FALSE, items |-> <<>>,
    first |-> NullUrl, last |-> NullUrl, prev |-> NullUrl, next |-> NullUrl,
    partOf |-> NullUrl ]

\* A summary that asks the dispatcher and embeds the items all the same.
SummaryWithItems(q) ==
  Built("OrderedCollection",
        [NoFields EXCEPT !.totalItems = Number(q.counter),
                         !.first = CursorUrl(q, q.firstCursor),
                         !.last = CursorUrl(q, q.firstCursor),
                         !.embedsItems = TRUE,
                         !.items = FilterCollectionItems(q.page.items,
                                                         q.predicate).result],
        <<Null>>)

\* The summary of a collection that offers cursors.
Summary(q) ==
  Built("OrderedCollection",
        [NoFields EXCEPT !.totalItems = Number(q.counter),
                         !.first = Url(SearchSet(ContextUrl(q), "cursor",
                                                 q.firstCursor)),
                         !.last = CursorUrl(q, q.lastCursor)],
        <<>>)

\* The collection with its items inlined, of a collection without cursors
\* whose dispatcher returned a page.
Inline(q) ==
  Built("OrderedCollection",
        [NoFields EXCEPT
           !.totalItems = IF q.counter \in {Unset, Null} THEN Null
                          ELSE Number(q.counter),
           !.embedsItems = TRUE,
           !.items = FilterCollectionItems(q.page.items,
                                           q.predicate).result],
        <<Null>>)

\* The page of a cursor, the dispatcher having returned one.
Page(q, cursor) ==
  Built("OrderedCollectionPage",
        [NoFields EXCEPT
           !.prev = CursorUrl(q, q.page.prevCursor),
           !.next = CursorUrl(q, q.page.nextCursor),
           !.embedsItems = TRUE,
           !.items = FilterCollectionItems(q.page.items,
                                           q.predicate).result,
           !.partOf = Url(SearchDelete(ContextUrl(q), "cursor"))],
        <<cursor>>)

\* const cursor = url.searchParams.get("cursor")
Cursor(q) == SearchGet(q.query, "cursor")

\* Whether the collection dispatcher is called: for a page, or for a
\* collection that offers no cursor.
DispatchesItems(q) == Cursor(q) # Null \/ q.firstCursor \in {Unset, Null}

\* The collection handleCollection assigns once its callbacks have settled.
BuildCollection(q) ==
  IF Cursor(q) = Null
    THEN IF q.firstCursor \in {Unset, Null} THEN Inline(q) ELSE Summary(q)
    ELSE Page(q, Cursor(q))

\* collectionCallbacks.firstCursor?.(...), collectionCallbacks.counter?.(...)
\* and collectionCallbacks.lastCursor?.(...): the call made, if any.  The
\* handler awaits the result also when the callback is not given.
OptionalCall(callback, name) == IF callback = Unset THEN <<>> ELSE <<name>>

\* handleCollection from the await it is suspended at, or from its call, to
\* the next await or to its return.
HandleCollection(q, res) ==
  CASE res.at = "start" ->
         IF ~q.configured THEN Suspended(<<>>, "onNotFound")
         ELSE IF Cursor(q) = Null
           THEN Suspended(OptionalCall(q.firstCursor, "firstCursor"),
                          "firstCursor")
         ELSE Suspended(<<"dispatcher">>, "dispatcher")
    [] res.at = "firstCursor" ->
         [res EXCEPT !.calls = @ \o OptionalCall(q.counter, "counter"),
                     !.at = "counter"]
    [] res.at = "counter" ->
         IF q.firstCursor \in {Unset, Null}
           THEN [res EXCEPT !.calls = @ \o <<"dispatcher">>,
                            !.at = "dispatcher"]
           ELSE [res EXCEPT
                   !.calls = @ \o OptionalCall(q.lastCursor, "lastCursor"),
                   !.at = "lastCursor"]
    [] res.at = "dispatcher" ->
         IF ~q.page.found THEN [res EXCEPT !.at = "onNotFound"]
         ELSE [Negotiate(q, res.calls) EXCEPT !.built = BuildCollection(q)]
    [] res.at = "lastCursor" ->
         [Negotiate(q, res.calls) EXCEPT !.built = BuildCollection(q)]
    [] OTHER -> Continue(q, res)

\* The call of handleCollection: it runs to its first await.
HandleCollectionRequest ==
  /\ fetch.handler = "collection" /\ result.at = "start"
  /\ result' = HandleCollection(fetch, result)
  /\ UNCHANGED <<inboxVars, fetch, walk>>

\* The await handleCollection is suspended at settles, or rejects and
\* handleCollection with it; the await of the undefined that an optional
\* callback not given leaves cannot reject.
HandleCollectionReturn ==
  /\ fetch.handler = "collection" /\ Awaiting(result)
  /\ \/ result' = HandleCollection(fetch, result)
     \/ /\ result.at \in {"firstCursor", "counter", "lastCursor"} =>
             fetch[result.at] # Unset
        /\ result' = Rejected(result)
  /\ UNCHANGED <<inboxVars, fetch, walk>>

(* ------------------- the listener resolution loop ---------------------- *)

\* The loop of one request: the class of the activity, the inboxListeners
\* map, the loop variable cls, the iterations made, and how the loop ended:
\* with the call of a listener, or with the 202 of an unsupported type.
Walks ==
  [ class : Classes, listeners : ListenerMaps, cls : Classes, steps : {0},
    state : {"walking"}, invoked : {NoClass}, response : {NoResponse} ]
NoWalk ==
  [ class |-> NoClass, listeners |-> {}, cls |-> NoClass, steps |-> 0,
    state |-> "idle", invoked |-> NoClass, response |-> NoResponse ]

WalkIdle == walk = NoWalk

\* One iteration of while (true).
WalkStep ==
  /\ walk.state = "walking"
  /\ \/ /\ HasListener(walk.listeners, walk.cls)
        /\ walk' = [walk EXCEPT !.state = "listener", !.invoked = walk.cls]
     \/ /\ ~HasListener(walk.listeners, walk.cls)
        /\ IsRoot(walk.cls)
        /\ walk' = [walk EXCEPT !.state = "returned", !.response = Accepted]
     \/ /\ ~HasListener(walk.listeners, walk.cls)
        /\ ~IsRoot(walk.cls)
        /\ walk' = [walk EXCEPT !.cls = GetPrototypeOf(walk.cls),
                                !.steps = @ + 1]
  /\ UNCHANGED <<inboxVars, fetch, result>>

(* --------------------------- specifications ---------------------------- *)

\* Overlapping inbox deliveries.
Init == InboxInit /\ FetchIdle /\ WalkIdle
Next == InboxNext
Spec == Init /\ [][Next]_vars

\* Inbox deliveries handled one after the other.
NextSeq == InboxNextSeq
SpecSeq == Init /\ [][NextSeq]_vars

\* One request to handleActor, handleObject or handleCollection.
FetchInit ==
  /\ InboxInit /\ WalkIdle
  /\ fetch \in Fetches /\ result = NoOutcome
FetchNext ==
  \/ HandleActorRequest
  \/ HandleActorReturn
  \/ HandleObjectRequest
  \/ HandleObjectReturn
  \/ HandleCollectionRequest
  \/ HandleCollectionReturn
SpecFetch == FetchInit /\ [][FetchNext]_vars

\* The listener resolution of one request.
ResolveInit ==
  /\ InboxInit /\ FetchIdle
  /\ walk \in {w \in Walks : w.cls = w.class}
SpecResolve == ResolveInit /\ [][WalkStep]_vars

\* Deliveries that are not abandoned and whose collaborators all settle, or
\* one listener resolution that goes on: every await of a request in flight
\* settles in the end, and the loop takes its next iteration.
LiveInit == Init \/ ResolveInit
LiveNext ==
  \/ WalkIdle /\ \E r \in Slots : Begin(r)
  \/ WalkIdle /\ \E r \in Slots : Settle(r)
  \/ WalkStep
SpecLive ==
  /\ LiveInit /\ [][LiveNext]_vars
  /\ WF_vars(WalkStep)
  /\ \A r \in Slots : WF_vars(Settle(r))

\* One call of acceptsJsonLd.
AcceptInit ==
  /\ InboxInit /\ WalkIdle
  /\ fetch \in AcceptRequests /\ result = NoOutcome
SpecAccept == AcceptInit /\ [][AcceptsJsonLdRequest]_vars

\* One call of filterCollectionItems.
FilterInit ==
  /\ InboxInit /\ WalkIdle
  /\ fetch \in FilterRequests /\ result = NoOutcome
SpecFilter == FilterInit /\ [][FilterRequest]_vars

\* One request to handleCollection that is served, for the collection built.
CollectionInit ==
  /\ InboxInit /\ WalkIdle
  /\ fetch \in CollectionRequests /\ result = NoOutcome
SpecCollection ==
  /\ CollectionInit
  /\ [][HandleCollectionRequest \/ HandleCollectionReturn]_vars

\* One call of respondWithObject or respondWithObjectIfAcceptable.
RespondInit ==
  /\ InboxInit /\ WalkIdle
  /\ fetch \in RespondRequests /\ result = NoOutcome
RespondNext ==
  \/ RespondWithObjectRequest
  \/ RespondWithObjectReturn
  \/ RespondWithObjectIfAcceptableRequest
  \/ RespondWithObjectIfAcceptableReturn
SpecRespond == RespondInit /\ [][RespondNext]_vars

\* Inbox deliveries, one after the other, on a store with truthy values
\* other than true.
TruthyInit == StoreForeign /\ RequestsIdle /\ FetchIdle /\ WalkIdle
SpecTruthy == TruthyInit /\ [][NextSeq]_vars

(* ------------------------------ properties ----------------------------- *)

\* What a request went through, read from hist.
Has(r, e) == \E i \in DOMAIN hist[r] : hist[r][i] = e
Stages(r) == [i \in DOMAIN hist[r] |-> hist[r][i][1]]
Count(r, P(_)) == Cardinality({i \in DOMAIN hist[r] : P(hist[r][i])})
IsPrefix(s, t) == Len(s) <= Len(t) /\ \A i \in DOMAIN s : s[i] = t[i]
Invokes(e) == e[1] = "resolve" /\ e[2] # "none"
Verified(e) == e \in {Ev("proof", "activity"), Ev("httpsig", "key")}

\* C1 (as stated): for every activity id, the listener is invoked at most
\* once over all the deliveries of that id, whether they overlap or follow a
\* failed attempt.
C1_InvokedAtMostOnce == \A k \in Ids : calls[k] <= 1

\* C1 (amended): among deliveries handled one after the other, at most one
\* delivery of an activity id has its listener return normally and leaves
\* the record; the listener may run again only after attempts that left none.
C1_ServedAtMostOnce == \A k \in Ids : served[k] <= 1

\* A delivery was served and a later one of the same id was turned away.
C1_Witness ==
  \E k \in Ids, r \in Slots :
    served[k] = 1 /\ pc[r] = "done" /\ resp[r] = AlreadyProcessedResponse(k)

\* C2: a listener is invoked only for an activity whose proof verification
\* gave the activity, or whose HTTP signature gave a key that the ownership
\* check found to belong to the activity's actor.
C2_InvokedOnlyWhenAuthenticated ==
  \A r \in Slots :
    called[r] # NoClass =>
      \/ Has(r, Ev("proof", "activity"))
      \/ /\ Has(r, Ev("httpsig", "key"))
         /\ Has(r, Ev("owner", "true"))
         /\ httpSigKey[r] # Null
         /\ DoesActorOwnKey(activity[r], httpSigKey[r])

\* A listener runs for a request authenticated by its HTTP signature alone.
C2_Witness ==
  \E r \in Slots :
    called[r] # NoClass /\ Has(r, Ev("proof", "null")) /\ pc[r] = "listener"

\* C3: a delivery that begins after the record of its activity id was written
\* invokes no listener, and the response it returns once its lookup has
\* answered is 202 with the already-processed body naming the id.
C3_RecordedIsTurnedAway ==
  \A r \in Slots :
    activity[r].id \in known[r] =>
      /\ called[r] = NoClass
      /\ ~\E i \in DOMAIN hist[r] : Invokes(hist[r][i])
      /\ pc[r] \notin {"kv.get", "threw", "abandoned"} =>
           /\ pc[r] = "done"
           /\ resp[r] = AlreadyProcessedResponse(activity[r].id)
           /\ Has(r, Ev("kv.get", "true"))

\* A delivery of a recorded id has been answered.
C3_Witness ==
  \E r \in Slots : activity[r].id \in known[r] /\ pc[r] = "done"

\* C4: the record is written only by a request whose listener returned
\* normally; a request whose listener threw (500) or that was abandoned while
\* its listener ran wrote nothing, and a record of its id, if there is one
\* now and was none when it began, comes from a delivery that was served.
C4_RecordOnlyAfterListenerReturned ==
  \A r \in Slots :
    /\ \A i \in DOMAIN hist[r] :
         hist[r][i][1] = "kv.set" =>
           \E j \in 1..(i - 1) : hist[r][j] = Ev("listener", "return")
    /\ pc[r] = "kv.set" => Has(r, Ev("listener", "return"))
    /\ (\/ resp[r] = InternalError
        \/ Has(r, Ev("listener", "throw"))
        \/ (pc[r] = "abandoned" /\ hist[r] # <<>>
              /\ Invokes(hist[r][Len(hist[r])]))) =>
         /\ ~\E i \in DOMAIN hist[r] : hist[r][i][1] = "kv.set"
         /\ pc[r] # "kv.set"
         /\ \A k \in Ids :
              (k = activity[r].id /\ kv[k] # NoEntry /\ k \notin known[r]) =>
                served[k] >= 1

\* A listener threw, the answer is 500 and the id has no record.
C4_Witness ==
  \E r \in Slots :
    /\ resp[r] = InternalError /\ pc[r] = "done"
    /\ activity[r].id \in Ids /\ kv[activity[r].id] = NoEntry

\* C5: within one request the verification (proof or HTTP signature) and,
\* for an activity with an id, the idempotency lookup have settled before the
\* listener is invoked, and the listener has returned before the write of
\* the record is issued.
C5_StagesInOrder ==
  \A r \in Slots :
    /\ \A i \in DOMAIN hist[r] :
         /\ Invokes(hist[r][i]) =>
              /\ \E j \in 1..(i - 1) : Verified(hist[r][j])
              /\ activity[r].id # Null =>
                   \E j \in 1..(i - 1) :
                     hist[r][j] = Ev("kv.get", "undefined")
         /\ hist[r][i][1] = "kv.set" =>
              \E j \in 1..(i - 1) : hist[r][j] = Ev("listener", "return")
    /\ pc[r] = "kv.set" =>
         hist[r][Len(hist[r])] = Ev("listener", "return")
    /\ called[r] # NoClass => \E i \in DOMAIN hist[r] : Invokes(hist[r][i])

\* A request went through lookup, listener and write.
C5_Witness ==
  \E r \in Slots :
    /\ Has(r, Ev("kv.get", "undefined"))
    /\ Has(r, Ev("listener", "return"))
    /\ Has(r, Ev("kv.set", "ok"))

\* C6 (as stated): whatever a collaborator does, a request that is over and
\* was not abandoned has a response; none ends with an unhandled exception.
C6_AlwaysResponds ==
  \A r \in Slots :
    (pc[r] \notin {"idle", "abandoned"} /\ ~InFlight(r)) =>
      (pc[r] = "done" /\ resp[r] # NoResponse)

\* The stages a request goes through when none fails, given what it carries.
PipelineOf(r) ==
  <<"config", "json", "proof">>
    \o (IF Has(r, Ev("proof", "null")) THEN <<"httpsig", "fromJsonLd">>
        ELSE <<>>)
    \o (IF activity[r].id # Null THEN <<"kv.get">> ELSE <<>>)
    \o <<"actor">>
    \o (IF httpSigKey[r] # Null THEN <<"owner">> ELSE <<>>)
    \o <<"resolve", "listener">>
    \o (IF activity[r].id # Null THEN <<"kv.set">> ELSE <<>>)

\* The outcomes that end a request with a response of their own.
Failing(e) ==
  e \in { Ev("config", "notFound"), Ev("json", "throw"), Ev("proof", "throw"),
          Ev("httpsig", "null"), Ev("kv.get", "true"), Ev("actor", "missing"),
          Ev("owner", "false"), Ev("resolve", "none"),
          Ev("listener", "throw") }

ResponseOf(r, e) ==
  CASE e = Ev("config", "notFound") -> OnNotFound
    [] e = Ev("json", "throw") -> InvalidJson
    [] e = Ev("proof", "throw") -> InvalidActivity
    [] e = Ev("httpsig", "null") -> SignatureFailed
    [] e = Ev("kv.get", "true") -> AlreadyProcessedResponse(activity[r].id)
    [] e = Ev("actor", "missing") -> MissingActor
    [] e = Ev("owner", "false") -> SignerMismatch
    [] e = Ev("listener", "throw") -> InternalError
    [] OTHER -> Accepted

\* C7: a request that is answered went through the stages in the fixed order
\* (configuration, JSON, proof, HTTP signature, lookup, actor, key owner,
\* listener resolution, listener), stopped at the first stage that failed
\* and carries the response of that stage, or 202 with an empty body when
\* none failed; the lookup comes before the actor and key-owner checks.
C7_FirstFailingStage ==
  \A r \in Slots :
    pc[r] = "done" =>
      LET n == Len(hist[r]) IN
      /\ n >= 1
      /\ IsPrefix(Stages(r), PipelineOf(r))
      /\ \A i \in 1..(n - 1) : ~Failing(hist[r][i])
      /\ resp[r] = ResponseOf(r, hist[r][n])
      /\ ~Failing(hist[r][n]) => Stages(r) = PipelineOf(r)
      /\ activity[r].id \in known[r] => Has(r, Ev("kv.get", "true"))
      /\ Has(r, Ev("kv.get", "true")) =>
           (activity[r].id \in Ids /\ kv[activity[r].id] # NoEntry)
      /\ Has(r, Ev("actor", "missing")) => activity[r].actorId = Null
      /\ Has(r, Ev("actor", "present")) => activity[r].actorId # Null
      /\ Has(r, Ev("owner", "false")) =>
           ~DoesActorOwnKey(activity[r], httpSigKey[r])
      /\ Has(r, Ev("owner", "true")) =>
           DoesActorOwnKey(activity[r], httpSigKey[r])

\* A recorded id is answered 202 although the activity has no actor and the
\* signing key is not the actor's.
C7_Witness ==
  \E r \in Slots :
    /\ pc[r] = "done"
    /\ resp[r] = AlreadyProcessedResponse(activity[r].id)
    /\ activity[r].actorId = Null
    /\ httpSigKey[r] = OtherKey

\* C8: a request whose listener returned normally and that is answered has
\* invoked the listener exactly once, carries 202 with an empty body, and,
\* when its activity has an id, the store holds true under that id with a
\* time-to-live of one day.
C8_SuccessPath ==
  \A r \in Slots :
    (pc[r] = "done" /\ Has(r, Ev("listener", "return"))) =>
      /\ resp[r] = TextResponse(202, <<>>)
      /\ called[r] # NoClass
      /\ Count(r, Invokes) = 1
      /\ Count(r, LAMBDA e : e[1] = "listener") = 1
      /\ Has(r, Ev("resolve", called[r]))
      /\ activity[r].id # Null =>
           /\ kv[activity[r].id] = [value |-> "true", ttlDays |-> 1]
           /\ Has(r, Ev("kv.set", "ok"))

\* An HTTP-signed delivery with an id went through the whole pipeline.
C8_Witness ==
  \E r \in Slots :
    /\ pc[r] = "done" /\ Has(r, Ev("listener", "return"))
    /\ activity[r].id \in Ids /\ httpSigKey[r] = ActorKey
    /\ Has(r, Ev("owner", "true"))

\* The handler of a request calls its dispatcher: always for an actor or an
\* object, and for a collection when it dispatches the items.
CallsDispatcher(q) == q.handler # "collection" \/ DispatchesItems(q)

\* The dispatcher of the request gives null.
NoResource(q) ==
  IF q.handler = "collection" THEN ~q.page.found ELSE q.resource = Null

IsHandlerRequest == fetch.handler \in {"actor", "object", "collection"}

\* The request has its answer: the handler has returned, or waits for the
\* callback of the caller whose response it will return.
Answered == result.at \in CallerCallbacks \cup {"done"}
Answer == IF result.at = "done" THEN result.response.kind ELSE result.at

\* C9: in handleActor, handleObject and handleCollection a missing
\* dispatcher or a null dispatched resource gives onNotFound whatever the
\* Accept header and the authorization; otherwise a request that does not
\* accept JSON-LD gives onNotAcceptable whatever the authorization;
\* otherwise a predicate returning false gives onUnauthorized; otherwise 200.
\* The answer is the response the handler returned or the callback of the
\* caller it waits for.
C9_Precedence ==
  (IsHandlerRequest /\ Answered) =>
    LET notFound == \/ ~fetch.configured
                    \/ (CallsDispatcher(fetch) /\ NoResource(fetch))
        notAcceptable == ~AcceptsJsonLd(fetch.types)
        unauthorized == fetch.authorize = "false" IN
    /\ notFound => Answer = "onNotFound"
    /\ (~notFound /\ notAcceptable) => Answer = "onNotAcceptable"
    /\ (~notFound /\ ~notAcceptable /\ unauthorized) =>
         Answer = "onUnauthorized"
    /\ (~notFound /\ ~notAcceptable /\ ~unauthorized) =>
         (Answer = "ok" /\ result.response.status = 200)

\* Not found wins over a request that is neither acceptable nor authorized,
\* here for a dispatcher that returned null.
C9_Witness ==
  /\ IsHandlerRequest /\ result.at = "done"
  /\ result.response.kind = "onNotFound"
  /\ fetch.configured /\ NoResource(fetch)
  /\ ~AcceptsJsonLd(fetch.types) /\ fetch.authorize = "false"

\* The classes from c up to Activity, c included.
RECURSIVE Chain(_)
Chain(c) == IF c = "Activity" THEN {c} ELSE {c} \cup Chain(Parent[c])

\* C10: the loop ends with the listener of the nearest class of the chain
\* from the activity's class up to Activity that has one (a subclass wins
\* over its ancestors), and it ends with 202, an empty body and no listener
\* invoked exactly when no class of the chain has one.
C10_NearestListener ==
  walk.state \in {"listener", "returned"} =>
    LET registered == Chain(walk.class) \cap walk.listeners IN
    /\ walk.invoked = ResolveListener(walk.class, walk.listeners)
    /\ IF registered = {}
         THEN /\ walk.state = "returned"
              /\ walk.invoked = NoClass
              /\ walk.response = TextResponse(202, <<>>)
         ELSE /\ walk.state = "listener"
              /\ walk.invoked \in registered
              /\ \A c \in registered : c \in Chain(walk.invoked)
              /\ walk.response = NoResponse

\* A subclass and its ancestor both have a listener; the subclass's is called.
C10_Witness ==
  /\ walk.state = "listener" /\ walk.class = "TentativeAccept"
  /\ {"TentativeAccept", "Accept", "Activity"} \subseteq walk.listeners
  /\ walk.invoked = "TentativeAccept"

\* C14 (as stated): acceptsJsonLd gives true for a request with no
\* parseable Accept header, false when the top preference is text/html or
\* application/xhtml+xml, and otherwise true exactly when the accepted
\* types contain application/activity+json, application/ld+json or
\* application/json.
C14_AcceptsJsonLd ==
  (fetch.handler = "acceptsJsonLd" /\ result # NoOutcome) =>
    LET types == result.types IN
    result.value =
      IF fetch.accept \in {NoHeader, Header(<<>>)} THEN TRUE
      ELSE IF types # <<>>
              /\ types[1] \in {"text/html", "application/xhtml+xml"}
        THEN FALSE
      ELSE \E i \in DOMAIN types : types[i] \in JsonLdTypes

\* The positions of the items of a list that satisfy P, in order.
Positions(items, P(_)) == {i \in DOMAIN items : P(items[i])}
RECURSIVE Pick(_, _)
Pick(items, positions) ==
  IF positions = {} THEN <<>>
  ELSE LET i == CHOOSE k \in positions : \A j \in positions : k <= j IN
       <<items[i]>> \o Pick(items, positions \ {i})

\* C15 (as stated): with a filter predicate, the items left out of the
\* response are exactly those for which the predicate returns false, and the
\* warning is logged once when the predicate left out some item and not at
\* all otherwise.
C15_OmitsExactlyRefused ==
  (fetch.handler = "filterCollectionItems" /\ result # NoOutcome
     /\ fetch.predicate.given) =>
    LET accepted == Positions(fetch.items,
                              LAMBDA x : x \in fetch.predicate.true) IN
    /\ Len(result.result) = Cardinality(accepted)
    /\ result.warnings <= 1
    /\ accepted = DOMAIN fetch.items => result.warnings = 0

\* C15 (amended): with a filter predicate, the items left out are those for
\* which the predicate returns false and the recipients that are neither
\* Object, Link nor URL and have no id, which are dropped before the
\* predicate is asked; the others are emitted in order, a recipient as its
\* id; the warning is logged once when the predicate refused at least one
\* item that was not so dropped, and not at all otherwise.
C15_OmitsRefusedAndIdless ==
  (fetch.handler = "filterCollectionItems" /\ result # NoOutcome
     /\ fetch.predicate.given) =>
    LET emittable(x) == x.kind \in {"Object", "Link", "URL"} \/ x.id # Null
        kept == Positions(fetch.items,
                  LAMBDA x : emittable(x) /\ x \in fetch.predicate.true)
        refused == Positions(fetch.items,
                     LAMBDA x : emittable(x) /\ x \notin fetch.predicate.true)
        expected == Pick(fetch.items, kept) IN
    /\ Len(result.result) = Len(expected)
    /\ \A i \in DOMAIN expected :
         /\ result.result[i].id = expected[i].id
         /\ result.result[i].kind =
              IF expected[i].kind = "Recipient" THEN "URL"
              ELSE expected[i].kind
    /\ result.warnings = IF refused = {} THEN 0 ELSE 1

\* Two items were refused by the predicate and one warning was logged.
C15_Witness ==
  /\ fetch.handler = "filterCollectionItems" /\ result # NoOutcome
  /\ fetch.predicate.given
  /\ Len(fetch.items) = 3 /\ Len(result.result) = 1
  /\ \A i \in DOMAIN fetch.items : fetch.items[i].id # Null
  /\ result.warnings = 1

\* The parameters of a query other than the cursor, in order.
Others(query) == SelectSeq(query, LAMBDA p : p.name # "cursor")
Cursors(query) == SelectSeq(query, LAMBDA p : p.name = "cursor")

\* A URL that is the request's with its cursor replaced by the given one.
IsRequestWithCursor(url, cursor) ==
  /\ ~url.isNull
  /\ Others(url.query) = Others(fetch.query)
  /\ Cursors(url.query) = <<[name |-> "cursor", value |-> cursor]>>

\* handleCollection has assigned its collection: it is at the content
\* negotiation or after it.
PastBuild ==
  \/ result.at \in {"onNotAcceptable", "getSignedKey", "getSignedKeyOwner",
                    "authorizePredicate", "onUnauthorized", "toJsonLd"}
  \/ result.at = "done" /\ result.response.kind # "onNotFound"

IsPageRequest ==
  /\ fetch.handler = "collection" /\ PastBuild
  /\ Cursors(fetch.query) # <<>> /\ fetch.page.found

IsSummaryRequest ==
  /\ fetch.handler = "collection" /\ PastBuild
  /\ Cursors(fetch.query) = <<>> /\ fetch.firstCursor \notin {Unset, Null}

\* C11: for a request with a cursor whose dispatcher returns a page, the
\* OrderedCollectionPage has partOf equal to the request URL without its
\* cursor, prev and next equal to the request URL with the cursor replaced
\* by the page's prevCursor and nextCursor, absent when that cursor is null;
\* the other query parameters are kept.
C11_PageLinks ==
  IsPageRequest =>
    LET page == result.built IN
    /\ page.kind = "OrderedCollectionPage"
    /\ ~page.partOf.isNull
    /\ page.partOf.query = Others(fetch.query)
    /\ IF fetch.page.prevCursor = Null THEN page.prev = NullUrl
       ELSE IsRequestWithCursor(page.prev, fetch.page.prevCursor)
    /\ IF fetch.page.nextCursor = Null THEN page.next = NullUrl
       ELSE IsRequestWithCursor(page.next, fetch.page.nextCursor)
    /\ page.dispatched = <<Cursors(fetch.query)[1].value>>

\* A page of a URL with two cursor parameters and another parameter aside,
\* served.
C11_Witness ==
  /\ IsPageRequest /\ result.at = "done" /\ result.response.kind = "ok"
  /\ Len(Cursors(fetch.query)) = 2
  /\ fetch.page.prevCursor = "p4" /\ fetch.page.nextCursor = Null
  /\ result.built.prev.query = <<[name |-> "cursor", value |-> "p4"]>>

\* C12: for a request without cursor whose firstCursor gives a cursor, the
\* result is an OrderedCollection whose first is the request URL with the
\* cursor set to the first cursor, whose last is the request URL with the
\* cursor set to the last cursor, absent when lastCursor is not given or
\* returns null; it embeds no items and the dispatcher is not called.
C12_Summary ==
  IsSummaryRequest =>
    LET summary == result.built IN
    /\ summary.kind = "OrderedCollection"
    /\ IsRequestWithCursor(summary.first, fetch.firstCursor)
    /\ IF fetch.lastCursor \in {Unset, Null} THEN summary.last = NullUrl
       ELSE IsRequestWithCursor(summary.last, fetch.lastCursor)
    /\ ~summary.embedsItems /\ summary.items = <<>>
    /\ summary.dispatched = <<>>
    /\ \A i \in DOMAIN result.calls : result.calls[i] # "dispatcher"
    /\ summary.prev = NullUrl /\ summary.next = NullUrl
    /\ summary.partOf = NullUrl

\* A summary with both ends for a URL with another parameter, served
\* although the dispatcher would have items.
C12_Witness ==
  /\ IsSummaryRequest /\ result.at = "done" /\ result.response.kind = "ok"
  /\ fetch.query = <<[name |-> "a", value |-> "1"]>>
  /\ fetch.lastCursor = "c9" /\ fetch.page.items # <<>>
  /\ result.built.first.query = <<[name |-> "a", value |-> "1"],
                                  [name |-> "cursor", value |-> "c0"]>>

\* C13 (as stated): in the summary of a collection that offers cursors,
\* totalItems is null when the counter is not given or returns null, and is
\* never not-a-number.
C13_TotalItemsNullWithoutCount ==
  IsSummaryRequest =>
    /\ result.built.totalItems # "NaN"
    /\ fetch.counter \in {Unset, Null} => result.built.totalItems = Null

\* C16: respondWithObjectIfAcceptable returns null exactly when
\* acceptsJsonLd(request) is false and otherwise the response of
\* respondWithObject with Vary: Accept added; respondWithObject alone
\* returns 200 with Content-Type application/activity+json and no Vary.
C16_RespondWithObject ==
  LET acceptable == AcceptsJsonLd(Types(Accepts(fetch.accept)))
      response == result.response IN
  /\ (fetch.handler = "respondWithObject" /\ result.at = "done") =>
       /\ response.kind = "ok" /\ response.status = 200
       /\ response.contentType = "application/activity+json"
       /\ response.vary = Unset
  /\ (fetch.handler = "respondWithObjectIfAcceptable"
        /\ result.at # "start") =>
       /\ ~acceptable => (result.at = "done" /\ result.calls = <<>>)
       /\ result.at = "done" =>
            /\ response.kind = "null" <=> ~acceptable
            /\ acceptable =>
                 /\ response.kind = "ok" /\ response.status = 200
                 /\ response.contentType = "application/activity+json"
                 /\ response.vary = "Accept"

\* A request preferring JSON-LD over HTML got the object, varying on Accept.
C16_Witness ==
  /\ fetch.handler = "respondWithObjectIfAcceptable"
  /\ result.at = "done" /\ result.response.kind = "ok"
  /\ result.response.vary = "Accept"
  /\ fetch.accept.present /\ Len(fetch.accept.ranges) = 2
  /\ fetch.accept.ranges[1].type = "text/html"

\* C17: a response that handleActor, handleObject or handleCollection builds
\* itself, not one of the caller's onNotFound, onNotAcceptable or
\* onUnauthorized, has status 200, Content-Type application/activity+json
\* and Vary: Accept.
C17_SuccessHeaders ==
  (IsHandlerRequest /\ result.at = "done") =>
    \/ result.response.kind \in CallerCallbacks
    \/ /\ result.response.kind = "ok"
       /\ result.response.status = 200
       /\ result.response.contentType = "application/activity+json"
       /\ result.response.vary = "Accept"

\* A collection summary served to an authorized client.
C17_Witness ==
  /\ fetch.handler = "collection" /\ result.at = "done"
  /\ result.response.kind = "ok" /\ fetch.authorize = "true"
  /\ ~DispatchesItems(fetch)

\* The values of the store that are truthy.
Truthy == {"true", "1"}

\* C18 (as stated): for an activity with an id, any truthy value the store
\* returns for its key, not only true, makes handleInbox answer 202 with the
\* already-processed body without dispatching a listener.
C18_TruthyHitTurnsAway ==
  \A r \in Slots :
    (\E v \in Truthy : Has(r, Ev("kv.get", v))) =>
      /\ called[r] = NoClass
      /\ pc[r] = "done"
      /\ resp[r] = AlreadyProcessedResponse(activity[r].id)

\* The failures handleInbox catches, and the status it answers them with.
CaughtStages == {"json", "proof", "listener"}
CaughtIn(r) == {e \in CaughtStages : Has(r, Ev(e, "throw"))}
StatusOf(error) == IF error = "listener" THEN 500 ELSE 400

\* C19 (as stated): a request that is over met inboxErrorHandler exactly
\* once, with the error thrown, when the body parse, the proof verifier or the
\* listener threw, and never otherwise; and the request is answered 400, 400
\* and 500 respectively, whether or not the handler is configured.
C19_ErrorHandlerKeepsStatus ==
  \A r \in Slots :
    pc[r] \in {"done", "threw"} =>
      /\ Len(errors[r]) = Cardinality(CaughtIn(r))
      /\ \A i \in DOMAIN errors[r] :
           /\ errors[r][i].error \in CaughtIn(r)
           /\ resp[r] = ErrorResponse(errors[r][i].error)
           /\ resp[r].status = StatusOf(errors[r][i].error)
      /\ resp[r] \in {OnNotFound, SignatureFailed, MissingActor, Accepted}
           => errors[r] = <<>>

\* The part of C19 that holds: the handler is called once per caught failure
\* and never otherwise, and a request that returns answers 400, 400 and 500.
C19_HandlerCalledOncePerCatch ==
  \A r \in Slots :
    /\ Len(errors[r]) <= 1
    /\ pc[r] \in {"done", "threw"} =>
         Len(errors[r]) = Cardinality(CaughtIn(r))
    /\ pc[r] = "done" =>
         \A i \in DOMAIN errors[r] :
           /\ errors[r][i].error \in CaughtIn(r)
           /\ resp[r] = ErrorResponse(errors[r][i].error)

\* A request whose verified activity has no id.
Idless(r) ==
  /\ activity[r].id = Null
  /\ Has(r, Ev("proof", "activity")) \/ Has(r, Ev("fromJsonLd", "activity"))

\* A request whose activity names its actor and, on the HTTP-signature path,
\* is signed with a key of that actor.
PassesChecks(r) ==
  /\ activity[r].actorId # Null
  /\ httpSigKey[r] # Null => DoesActorOwnKey(activity[r], httpSigKey[r])

StoreStages == {"kv.get", "kv.set"}

\* C20: a request whose activity has a null id never reads or writes the
\* key-value store: it never waits for kv.get or kv.set, none of its steps
\* changes the store, and when it is answered and passes the actor and
\* key-owner checks it went on to the listener resolution and, a listener
\* being registered, invoked the listener, whatever was delivered before.
C20_NullIdSkipsStore ==
  /\ [](\A r \in Slots :
          Idless(r) =>
            /\ pc[r] \notin StoreStages
            /\ \A i \in DOMAIN hist[r] : hist[r][i][1] \notin StoreStages
            /\ (pc[r] = "done" /\ PassesChecks(r)) =>
                 /\ \E i \in DOMAIN hist[r] : hist[r][i][1] = "resolve"
                 /\ ~Has(r, Ev("resolve", "none")) =>
                      /\ called[r] # NoClass
                      /\ \E i \in DOMAIN hist[r] : hist[r][i][1] = "listener")
  /\ [][\A r \in Slots :
          (pc'[r] # pc[r] /\ activity'[r].id = Null) => kv' = kv]_vars

\* Two deliveries of activities without an id each ran the listener to its
\* end and were answered 202, and the store is empty.
C20_Witness ==
  /\ \A r \in Slots :
       /\ Idless(r) /\ pc[r] = "done" /\ resp[r] = Accepted
       /\ Has(r, Ev("listener", "return"))
  /\ \A k \in Ids : kv[k] = NoEntry

\* A request that stopped at the configuration sanity stage.
StoppedAtConfig(r) == Has(r, Ev("config", "notFound"))

\* C21: a request that stops at the configuration sanity stage (no actor
\* dispatcher, or a handle for which no actor resolves) waits for onNotFound
\* and returns its response (it has none only while onNotFound is pending,
\* when onNotFound itself threw, or when it was abandoned), having parsed no
\* body, run no verifier, waited for no store operation and invoked neither
\* a listener nor the error handler, and the steps that stop and end it leave
\* the store as it is; a request to the shared inbox (handle null) with a
\* dispatcher never waits for the handle resolver and goes on to the body
\* parsing.
C21_ConfigStopTouchesNothing ==
  /\ [](\A r \in Slots :
          /\ StoppedAtConfig(r) =>
               /\ pc[r] \in {"onNotFound", "done", "threw", "abandoned"}
               /\ pc[r] = "done" => resp[r] = OnNotFound
               /\ pc[r] # "done" => resp[r] = NoResponse
               /\ hist[r] = IF pc[r] = "threw"
                            THEN <<Ev("config", "notFound"),
                                   Ev("onNotFound", "throw")>>
                            ELSE <<Ev("config", "notFound")>>
               /\ activity[r] = NoActivity /\ httpSigKey[r] = Null
               /\ called[r] = NoClass /\ errors[r] = <<>>
               /\ ~params[r].actorDispatcher \/ params[r].handle # Null
          /\ (pc[r] # "idle" /\ ~params[r].actorDispatcher) =>
               StoppedAtConfig(r)
          /\ (pc[r] # "idle" /\ params[r].actorDispatcher
                /\ params[r].handle = Null) =>
               /\ Len(hist[r]) >= 1 /\ hist[r][1] = Ev("config", "ok")
               /\ pc[r] \in {"json", "verifyObject", "verifyRequest",
                             "abandoned"}
          /\ pc[r] = "getActor" =>
               /\ hist[r] = <<>>
               /\ params[r].actorDispatcher /\ params[r].handle # Null)
  /\ [][\A r \in Slots :
          /\ StoppedAtConfig(r)' /\ pc'[r] # pc[r] =>
               /\ kv' = kv /\ calls' = calls /\ served' = served
          /\ pc'[r] = "getActor" /\ pc[r] # "getActor" =>
               /\ params'[r].actorDispatcher
               /\ params'[r].handle # Null]_vars

\* One request was stopped because no actor resolved for its handle and
\* got the onNotFound response, and one to the shared inbox went on and had
\* its body parsed.
C21_Witness ==
  \E r, s \in Slots :
    /\ StoppedAtConfig(r) /\ params[r].actorDispatcher
    /\ params[r].handle # Null
    /\ pc[r] = "done" /\ resp[r] = OnNotFound
    /\ params[s].actorDispatcher /\ params[s].handle = Null
    /\ pc[s] = "verifyObject" /\ hist[s][Len(hist[s])] = Ev("json", "ok")

\* The projection of an item: itself for an Object, a Link or a URL, and the
\* URL that is its id for another entity.
Projected(item) ==
  IF item.kind \in {"Object", "Link", "URL"} THEN item
  ELSE [kind |-> "URL", id |-> item.id]

\* C22: filterCollectionItems emits an Object, a Link or a URL as itself and
\* another entity as its id; another entity without id is dropped without
\* the predicate being asked about it and without a warning; the emitted
\* items are in the order of the dispatcher's items and are no more than
\* these.
C22_ItemProjection ==
  (fetch.handler = "filterCollectionItems" /\ result # NoOutcome) =>
    LET items == fetch.items
        idless == Positions(items,
                    LAMBDA x : x.kind = "Recipient" /\ x.id = Null)
        passed == Positions(items,
                    LAMBDA x : ~fetch.predicate.given
                                 \/ x \in fetch.predicate.true)
        emitted == Pick(items, passed \ idless) IN
    /\ Len(result.result) = Len(emitted)
    /\ \A i \in DOMAIN emitted : result.result[i] = Projected(emitted[i])
    /\ Len(result.result) <= Len(items)
    /\ result.asked = IF fetch.predicate.given
                        THEN Len(items) - Cardinality(idless) ELSE 0
    /\ (DOMAIN items \ idless) \subseteq passed => result.warnings = 0

\* With no predicate, an object, a recipient and a recipient without id
\* gave the object and the id of the first recipient, in this order.
C22_Witness ==
  /\ fetch.handler = "filterCollectionItems" /\ result # NoOutcome
  /\ ~fetch.predicate.given
  /\ Len(fetch.items) = 3
  /\ \E i, j, k \in DOMAIN fetch.items :
       /\ i < j
       /\ fetch.items[i].kind = "Object"
       /\ fetch.items[j] = [kind |-> "Recipient", id |-> "r1"]
       /\ fetch.items[k] = [kind |-> "Recipient", id |-> Null]
  /\ Len(result.result) = 2
  /\ result.result[1].kind = "Object"
  /\ result.result[2] = [kind |-> "URL", id |-> "r1"]

\* The activity of the request came out of a verification: of its proof, or
\* of the HTTP signature with a key that belongs to its actor.
Authenticated(r) ==
  \/ Has(r, Ev("proof", "activity"))
  \/ Has(r, Ev("httpsig", "key")) /\ Has(r, Ev("owner", "true"))

\* The record handleInbox leaves.
TheRecord == [value |-> "true", ttlDays |-> TtlDays]

\* The step of request r that completes its kv.set.
Writes(r) ==
  /\ pc[r] = "kv.set" /\ pc'[r] = "done" /\ resp'[r] = Accepted
  /\ activity[r].id \in Ids
  /\ kv' = [kv EXCEPT ![activity[r].id] = TheRecord]
  /\ Authenticated(r)
  /\ hist[r][Len(hist[r])] = Ev("listener", "return")

\* C23: whatever the interleaving of the requests, the store changes only by
\* a request whose activity has an id, was authenticated and whose listener
\* returned normally, writing true under that id with a time-to-live of
\* one day; a step that ends a request in another way (onNotFound, 400, 401,
\* 202 already processed, 202 with no listener, 500) leaves the store as it
\* is; and, the store starting empty, an already-processed answer for an id
\* is given only after a delivery of that id whose listener returned
\* normally wrote the record.
C23_OnlySuccessfulDeliveriesWrite ==
  /\ [][/\ kv' # kv => \E r \in Slots : Writes(r)
        /\ \A r \in Slots :
             (pc'[r] = "done" /\ pc[r] # "done"
                /\ hist'[r][Len(hist'[r])] # Ev("kv.set", "ok")) =>
               kv' = kv]_vars
  /\ [](/\ \A k \in Ids :
             /\ kv[k] \in {NoEntry, TheRecord}
             /\ kv[k] = TheRecord => served[k] >= 1
        /\ \A r \in Slots, k \in Ids :
             (pc[r] = "done" /\ resp[r] = AlreadyProcessedResponse(k)) =>
               /\ served[k] >= 1 /\ kv[k] = TheRecord
               /\ ~\E i \in DOMAIN hist[r] : hist[r][i][1] = "kv.set")

\* Of two overlapping deliveries of one id, one left the record and the
\* other was then answered as already processed.
C23_Witness ==
  \E r, s \in Slots :
    /\ r # s /\ activity[r].id \in Ids /\ activity[s].id = activity[r].id
    /\ pc[r] = "done" /\ Has(r, Ev("kv.set", "ok"))
    /\ activity[r].id \notin known[s]
    /\ pc[s] = "done" /\ resp[s] = AlreadyProcessedResponse(activity[s].id)

\* The positions of a callback among the calls a handler made.
At(made, name) == {i \in DOMAIN made : made[i] = name}

AuthorizationCalls ==
  {"getSignedKey", "getSignedKeyOwner", "authorizePredicate"}
ResourceCalls ==
  {"getActor", "objectDispatcher", "dispatcher", "firstCursor", "counter",
   "lastCursor"}

\* C24: in handleActor, handleObject and handleCollection the authorization
\* predicate and the lookups of the signed key and of its owner are called
\* at most once each, the lookups before the predicate, and only when the
\* resource was resolved to non-null and the request accepts JSON-LD, after
\* every call that resolves the resource, and a request that returns having
\* passed both has called the three; in handleCollection the cursor and
\* counter callbacks and the dispatcher are called before the negotiation and
\* the authorization, hence also for a request answered by onNotAcceptable
\* or onUnauthorized.
C24_AuthorizationLastAndOnce ==
  IsHandlerRequest =>
    LET made == result.calls
        resolved == /\ fetch.configured
                    /\ CallsDispatcher(fetch) => ~NoResource(fetch)
        asked == /\ resolved /\ AcceptsJsonLd(fetch.types)
                 /\ fetch.authorize # Unset
        asks == At(made, "authorizePredicate") IN
    /\ \A name \in AuthorizationCalls :
         /\ Cardinality(At(made, name)) <= 1
         /\ At(made, name) # {} => asked
         /\ (result.at = "done" /\ asked) => At(made, name) # {}
    /\ \A i \in asks :
         /\ i >= 3
         /\ made[i - 2] = "getSignedKey" /\ made[i - 1] = "getSignedKeyOwner"
         /\ \A j \in DOMAIN made : made[j] \in ResourceCalls => j < i - 2
    /\ (fetch.handler = "collection" /\ fetch.configured /\ Answered) =>
         /\ (Cursor(fetch) = Null /\ fetch.firstCursor # Unset) =>
              Cardinality(At(made, "firstCursor")) = 1
         /\ (Cursor(fetch) = Null /\ fetch.counter # Unset) =>
              Cardinality(At(made, "counter")) = 1
         /\ DispatchesItems(fetch) =>
              Cardinality(At(made, "dispatcher")) = 1
         /\ \A i, j \in DOMAIN made :
              (made[i] \in ResourceCalls /\ made[j] \notin ResourceCalls) =>
                i < j

\* A collection without first cursor, refused by the predicate: the cursor
\* and counter callbacks and the dispatcher were called, then the lookups
\* and the predicate, and the handler returned what onUnauthorized gave.
C24_Witness ==
  /\ fetch.handler = "collection" /\ result.at = "done"
  /\ result.response.kind = "onUnauthorized"
  /\ result.calls = <<"firstCursor", "counter", "dispatcher", "getSignedKey",
                      "getSignedKeyOwner", "authorizePredicate">>

\* A stage of the request ended with an exception, or the handle resolver
\* threw before the first stage had its outcome.
Threw(r) ==
  \/ \E i \in DOMAIN hist[r] : hist[r][i][2] = "throw"
  \/ pc[r] = "threw" /\ hist[r] = <<>>

\* C25: the requests of handleInbox whose awaits all settle come to their
\* end (the deliveries made, no request stays in flight), each with a
\* response, one only, when no collaborator threw; the loop of the listener
\* resolution ends, for every class, after no more iterations than the chain
\* from the class up to Activity has classes; and a request invokes at most
\* one listener, at most once.
C25_CompletesWithOneResponse ==
  /\ <>[](/\ \A r \in Slots : ~InFlight(r)
          /\ walk.state \in {"idle", "listener", "returned"})
  /\ [](/\ walk.state # "idle" =>
             walk.steps + 1 <= Cardinality(Chain(walk.class))
        /\ \A r \in Slots :
             /\ InFlight(r) => resp[r] = NoResponse
             /\ (pc[r] \in {"done", "threw"} /\ ~Threw(r)) =>
                  (pc[r] = "done" /\ resp[r] # NoResponse)
             /\ Count(r, Invokes) <= 1
             /\ Count(r, LAMBDA e : e[1] = "listener") <= 1)
  /\ [][\A r \in Slots :
          resp'[r] # resp[r] =>
            \/ InFlight(r) /\ resp[r] = NoResponse /\ pc'[r] = "done"
            \/ ~InFlight(r) /\ InFlight(r)' /\ resp'[r] = NoResponse]_vars

\* A request went through every stage to its 202, with the listener of an
\* ancestor of the class invoked once.
C25_Witness ==
  \E r \in Slots :
    /\ pc[r] = "done" /\ resp[r] = Accepted /\ ~Threw(r)
    /\ Has(r, Ev("kv.set", "ok")) /\ Has(r, Ev("owner", "true"))
    /\ Count(r, Invokes) = 1

====
